---- MODULE Spec2Model ----
(***************************************************************************)
(* Error-recovery coordination core of sila2_feature_lib                   *)
(* (error_recovery/v001_0): ErrorRecoveryManager, ErrorEntry, ErrorRecovery *)
(* and the ErrorRecoveryService adapter, as a state machine.               *)
(*                                                                         *)
(* Python objects are records tagged with their class (field cls), so that *)
(* == between objects of different classes is FALSE as in Python.  A call  *)
(* is an operator from a heap record M to a heap record; M.exc names the   *)
(* exception that left the call ("" when it returned), M.ret its value.    *)
(* The effects a call had before it raised stay in the heap.               *)
(***************************************************************************)
EXTENDS Integers, Sequences, FiniteSets, TLC

\* ------------------------------------------------------------- bounds
MaxEntries == 2      \* ErrorEntry objects created in a run without a clock
MaxTimedEntries == 1 \* ErrorEntry objects created in a run with a clock
MaxTime == 2         \* the clock runs 0..MaxTime (seconds)
MaxManagers == 3     \* ErrorRecoveryManager objects constructed at start-up

\* ------------------------------------------------------------- inputs
Execs == {"exec-1", "exec-2"}        \* command execution uuids, one scope each
Subscribers == {"sub-1"}             \* clients of subscribe_to_changes
InputDatas == {"d1"}                 \* InputData strings of the service call

\* ------------------------------------------------------------ objects
PyNone == [cls |-> "NoneType"]
PyStr(s) == [cls |-> "str", val |-> s]
PyNum(n) == [cls |-> "float", val |-> n]
Continuation(id, ar) == [cls |-> "Continuation", identifier |-> id, auto_raise |-> ar]
Resolution(d) == [cls |-> "Resolution", input_data |-> d]
ResolutionEmpty == Resolution(PyNone)
Fault(n) == [cls |-> "Exception", id |-> n]
PyBool(b) == [cls |-> "bool", val |-> b]
EntryRef(e) == [cls |-> "ErrorEntry", id |-> e]

CONTINUATION_CANCELLED == Continuation("Cancelled", TRUE)
ContA == Continuation("A", FALSE)     \* a plain option
ContB == Continuation("B", TRUE)      \* an option with auto_raise
ContZ == Continuation("Z", FALSE)     \* an option offered by no catalog
Catalog == <<ContA, ContB>>

\* A run is one of six programs.  Untimed has a handler for each execution,
\* no automatic selection and a clock that stands still.  Timed has one handler
\* with one error that may time out, and defaults that may lie outside the
\* catalog.  Replacing has one handler that reports a second error for its
\* execution while the clock runs, and no client.  Watched has one handler
\* per execution and a client subscribed to the changes of the registry.
\* Expiring has that client and one handler whose errors time out.  Starting
\* is a process at start-up, before any manager exists: it obtains managers.
\* builds: the handlers that build their ErrorRecovery themselves, the others
\* enter context_error_recovery; uncaught: the handlers that let the exceptions
\* of their waits leave the scope; limits: the timeouts clients send to
\* SetErrorHandlingTimeout; boots: the ways the program obtains a manager
\* (the other programs start with the global instance in place); holds: the
\* get_errors calls whose list program code keeps ("all": no predicate, else
\* the execution it filters by); posts: the continuations program code passes
\* to post_resolution; cids: the continuation ids clients send; subs: the
\* clients of subscribe_to_changes.
Untimed ==
    [name |-> "untimed", execs |-> Execs, builds |-> {"exec-1"}, uncaught |-> {},
     limits |-> {}, boots |-> {}, holds |-> {},
     defaults |-> {ContA}, timeouts |-> {PyNone, PyNum(0)}, waits |-> {PyNone},
     auto_resolves |-> {PyNone, PyBool(TRUE), PyBool(FALSE)},
     posts |-> {ContA, ContB, ContZ, CONTINUATION_CANCELLED},
     cids |-> {"A", "B", "Z"}, subs |-> {}, entries |-> MaxEntries, clock |-> 0]
Timed ==
    [name |-> "timed", execs |-> {"exec-1"}, builds |-> {}, uncaught |-> {"exec-1"},
     limits |-> {}, boots |-> {}, holds |-> {},
     defaults |-> {ContA, ContB, ContZ}, timeouts |-> {PyNum(0), PyNum(1)},
     waits |-> {PyNone, PyNum(0), PyNum(1)},
     auto_resolves |-> {PyBool(TRUE), PyBool(FALSE)},
     posts |-> {ContA, ContB, ContZ, CONTINUATION_CANCELLED},
     cids |-> {"A", "B", "Z"}, subs |-> {}, entries |-> MaxTimedEntries,
     clock |-> MaxTime]
Replacing ==
    [name |-> "replacing", execs |-> {"exec-1"}, builds |-> {}, uncaught |-> {"exec-1"},
     limits |-> {2}, boots |-> {}, holds |-> {},
     defaults |-> {ContA, ContZ}, timeouts |-> {PyNone, PyNum(1)},
     waits |-> {PyNum(0)},
     auto_resolves |-> {PyBool(FALSE)}, posts |-> {}, cids |-> {}, subs |-> {},
     entries |-> MaxEntries, clock |-> MaxTime]
Watched ==
    [name |-> "watched", execs |-> Execs, builds |-> {}, uncaught |-> {},
     limits |-> {}, boots |-> {}, holds |-> {},
     defaults |-> {ContA}, timeouts |-> {PyNum(0)}, waits |-> {},
     auto_resolves |-> {}, posts |-> {ContA}, cids |-> {"A"},
     subs |-> Subscribers, entries |-> MaxEntries, clock |-> 0]
Expiring ==
    [name |-> "expiring", execs |-> {"exec-1"}, builds |-> {}, uncaught |-> {},
     limits |-> {}, boots |-> {}, holds |-> {"all", "exec-1"},
     defaults |-> {ContA, ContZ}, timeouts |-> {PyNum(1)}, waits |-> {},
     auto_resolves |-> {}, posts |-> {}, cids |-> {},
     subs |-> Subscribers, entries |-> MaxEntries, clock |-> MaxTime]
Starting ==
    [name |-> "starting", execs |-> {}, builds |-> {}, uncaught |-> {},
     limits |-> {}, boots |-> {"constructor", "get_global_instance"}, holds |-> {},
     defaults |-> {}, timeouts |-> {}, waits |-> {}, auto_resolves |-> {},
     posts |-> {}, cids |-> {}, subs |-> {}, entries |-> 0, clock |-> 0]
\* One handler that passes negative timeouts, with a client and timers.
Negative ==
    [name |-> "negative", execs |-> {"exec-1"}, builds |-> {}, uncaught |-> {},
     limits |-> {}, boots |-> {}, holds |-> {},
     defaults |-> {ContA}, timeouts |-> {PyNum(-1), PyNum(1)},
     waits |-> {PyNone, PyNum(-1)},
     auto_resolves |-> {PyBool(FALSE)}, posts |-> {ContA}, cids |-> {}, subs |-> {},
     entries |-> MaxTimedEntries, clock |-> MaxTime]
Profiles == {Untimed, Timed, Replacing, Watched, Expiring, Starting, Negative}

\* The ErrorRecovery object of execution x, and the str its id property returns.
ScopeObj(x) == [cls |-> "ErrorRecovery", id |-> x]
ScopeIdStr(x) == PyStr(x)
\* Attributes ErrorRecovery.__init__ sets; private names are mangled with the
\* name of the class whose body holds the statement.
Mangle(class, name) == <<class, name>>
ScopeAttrs ==
    { Mangle("ErrorRecovery", "__auto_resolve"), Mangle("ErrorRecovery", "__id"),
      Mangle("ErrorRecovery", "__cmd_identifier"),
      Mangle("ErrorRecovery", "__cmdexecution_uuid"),
      Mangle("ErrorRecovery", "__manager") }

VARIABLES
    errors,      \* ErrorRecoveryManager._errors: list of entry ids
    entry,       \* the ErrorEntry objects created so far, by id 1..Len(entry)
    listeners,   \* ErrorRecoveryManager._listeners
    signal,      \* the asyncio.Event of each subscriber: is it set
    now,         \* datetime.now(), in seconds
    scope,       \* the ErrorRecovery scope of each execution
    waiter,      \* per entry: the coroutine inside wait_for_continuation
    last,        \* the call that has just ended and how it ended
    profile,     \* the program that runs (fixed by Init)
    sub,         \* per client: its RecoverableErrors stream (position, last snapshot)
    default_timeout,  \* ErrorRecoveryService.default_timeout
    instance,    \* ErrorRecoverySingleton._instance: a manager's number, 0 for None
    managers,    \* the number of ErrorRecoveryManager objects constructed
    held         \* the list program code got from get_errors and keeps, or None

vars == <<errors, entry, listeners, signal, now, scope, waiter, last, profile,
          sub, default_timeout, instance, managers, held>>

\* ------------------------------------------------------------ the heap
\* sets counts, per Event, the set() calls of the running call.
Heap == [errors |-> errors, entry |-> entry, listeners |-> listeners,
         signal |-> signal, default_timeout |-> default_timeout,
         exc |-> "", ret |-> PyNone,
         sets |-> [s \in Subscribers |-> 0]]
Raise(M, x) == [M EXCEPT !.exc = x]
Return(M, v) == [M EXCEPT !.ret = v]
Raised(M) == M.exc # ""

\* list.remove(e): drops the first occurrence.
RECURSIVE ListRemove(_, _)
ListRemove(s, e) ==
    IF s = <<>> THEN <<>>
    ELSE IF Head(s) = e THEN Tail(s) ELSE <<Head(s)>> \o ListRemove(Tail(s), e)
InList(s, e) == \E i \in 1..Len(s) : s[i] = e

\* for listener in self._listeners: listener.set()
Notify(M) ==
    [M EXCEPT !.signal = [s \in Subscribers |-> (s \in M.listeners) \/ M.signal[s]],
              !.sets = [s \in Subscribers |->
                           M.sets[s] + (IF s \in M.listeners THEN 1 ELSE 0)]]

\* -------------------------------------------------------- ErrorEntry
\* A faulty post_resolution, without the membership test.
post_resolution_unchecked(M, e, args) ==
    IF Len(args) # 2 THEN Raise(M, "TypeError")
    ELSE [M EXCEPT !.entry[e].selected_continuation = args[2],
                   !.entry[e].resolution = args[1],
                   !.entry[e].resolution_available = TRUE]

\* ErrorEntry.post_resolution, called with the positional arguments args.
post_resolution(M, e, args) ==
    IF Len(args) # 2 THEN Raise(M, "TypeError")
    ELSE LET resolution == args[1]
             continuation == args[2]
         IN  IF ~InList(M.entry[e].continuation_options, continuation)
                /\ continuation # CONTINUATION_CANCELLED
             THEN \* building the message reads continuation.identifier
                  IF continuation.cls = "Continuation"
                  THEN Raise(M, "ValueError") ELSE Raise(M, "AttributeError")
             ELSE [M EXCEPT !.entry[e].selected_continuation = continuation,
                            !.entry[e].resolution = resolution,
                            !.entry[e].resolution_available = TRUE]

\* A faulty is_resolution_available, which applies the timeout 0 as a deadline.
is_resolution_available_always(M, e, t) ==
    IF M.entry[e].resolution_available THEN Return(M, PyBool(TRUE))
    ELSE LET en == M.entry[e]
             M1 == IF (t - en.error_time) > en.automation_selection_timeout
                   THEN post_resolution(M, e, <<ResolutionEmpty, en.default_option>>)
                   ELSE M
         IN  IF Raised(M1) THEN M1
             ELSE Return(M1, PyBool(M1.entry[e].resolution_available))

\* ErrorEntry.is_resolution_available at time t.
is_resolution_available(M, e, t) ==
    IF M.entry[e].resolution_available THEN Return(M, PyBool(TRUE))
    ELSE LET en == M.entry[e]
             M1 == IF en.automation_selection_timeout > 0
                      /\ (t - en.error_time) > en.automation_selection_timeout
                   THEN post_resolution(M, e, <<ResolutionEmpty, en.default_option>>)
                   ELSE M
         IN  IF Raised(M1) THEN M1
             ELSE Return(M1, PyBool(M1.entry[e].resolution_available))

\* The predicates the code passes to filter(): None, a uuid test, a creator test.
PredNone == [kind |-> "None"]
PredUuid(x) == [kind |-> "uuid", v |-> x]
PredCreator(id) == [kind |-> "creator", v |-> id]
Matches(pred, en) ==
    CASE pred.kind = "None" -> TRUE               \* filter(None, ..): truthiness
      [] pred.kind = "uuid" -> en.command_execution_uuid = pred.v
      [] pred.kind = "creator" -> en.creator_instance = pred.v

RECURSIVE mark_resolved(_, _, _), ClearLoop(_, _, _, _)

\* ErrorRecoveryManager.clear_errors: the filter object is lazy (and always
\* truthy), so the loop walks the live list by index while it shrinks.
ClearLoop(M, pred, t, i) ==
    IF i > Len(M.errors) THEN Notify(M)
    ELSE LET e == M.errors[i] IN
         IF ~Matches(pred, M.entry[e]) THEN ClearLoop(M, pred, t, i + 1)
         ELSE LET M1 == mark_resolved(M, e, t) IN
              IF Raised(M1) THEN M1
              ELSE IF ~InList(M1.errors, e) THEN Raise(M1, "ValueError")
              ELSE ClearLoop([M1 EXCEPT !.errors = ListRemove(M1.errors, e)],
                             pred, t, i + 1)

clear_errors(M, pred, t) == ClearLoop(M, pred, t, 1)

\* A faulty clear, which clears the entries of every execution.
clear_everything(M, e, t) == clear_errors(M, PredNone, t)

\* ErrorEntry.clear
clear(M, e, t) == clear_errors(M, PredUuid(M.entry[e].command_execution_uuid), t)

\* A faulty mark_resolved, whose second call cancels once more.
mark_resolved_again(M, e, t) ==
    IF M.entry[e].is_resolved
    THEN post_resolution(M, e, <<ResolutionEmpty, CONTINUATION_CANCELLED>>)
    ELSE LET M1 == [M EXCEPT !.entry[e].is_resolved = TRUE]
             M2 == is_resolution_available(M1, e, t)
         IN  IF Raised(M2) THEN M2
             ELSE LET M3 == IF ~M2.ret.val
                            THEN post_resolution(
                                     M2, e, <<ResolutionEmpty, CONTINUATION_CANCELLED>>)
                            ELSE M2
                  IN  clear(M3, e, t)

\* A faulty mark_resolved, which sets the signal without posting CANCELLED.
mark_resolved_unposted(M, e, t) ==
    IF M.entry[e].is_resolved THEN M
    ELSE LET M1 == [M EXCEPT !.entry[e].is_resolved = TRUE]
             M2 == is_resolution_available(M1, e, t)
         IN  IF Raised(M2) THEN M2
             ELSE clear([M2 EXCEPT !.entry[e].resolution_available = TRUE], e, t)

\* ErrorEntry.mark_resolved
mark_resolved(M, e, t) ==
    IF M.entry[e].is_resolved THEN M
    ELSE LET M1 == [M EXCEPT !.entry[e].is_resolved = TRUE]
             M2 == is_resolution_available(M1, e, t)
         IN  IF Raised(M2) THEN M2
             ELSE LET M3 == IF ~M2.ret.val
                            THEN post_resolution(
                                     M2, e, <<ResolutionEmpty, CONTINUATION_CANCELLED>>)
                            ELSE M2
                  IN  clear(M3, e, t)

\* ErrorEntry.cancel
cancel(M, e, t) == mark_resolved(M, e, t)

\* ErrorEntry.raise_error
raise_error(M, e, t) ==
    LET M1 == cancel(M, e, t) IN
    IF Raised(M1) THEN M1
    ELSE [M1 EXCEPT !.exc = "Exception", !.ret = M1.entry[e].error]

\* A list object: a new one with its own items, or the manager's _errors.
NewList(items) == [cls |-> "list", ref |-> "new", items |-> items]
LiveList == [cls |-> "list", ref |-> "_errors", items |-> <<>>]
\* The items of list object l.
Items(M, l) == IF l.ref = "_errors" THEN M.errors ELSE l.items
\* l.pop() and l.reverse(), done on the object l refers to: the heap after
\* the operation and the list object.
ListPop(M, l) ==
    IF l.ref = "_errors"
    THEN [M EXCEPT !.errors = SubSeq(@, 1, Len(@) - 1), !.ret = l]
    ELSE Return(M, [l EXCEPT !.items = SubSeq(@, 1, Len(@) - 1)])
Reversed(q) == [i \in 1..Len(q) |-> q[Len(q) + 1 - i]]
ListReverse(M, l) ==
    IF l.ref = "_errors"
    THEN [M EXCEPT !.errors = Reversed(@), !.ret = l]
    ELSE Return(M, [l EXCEPT !.items = Reversed(@)])

\* ErrorRecoveryManager.get_errors: a new list.
get_errors(M, pred) == SelectSeq(M.errors, LAMBDA e : Matches(pred, M.entry[e]))

\* A faulty get_errors, which hands out the live list when it has no predicate.
get_errors_live(M, pred) ==
    IF pred = PredNone THEN LiveList ELSE NewList(get_errors(M, pred))

\* ErrorRecoveryManager.get_errors, the list object it returns:
\* self._errors.copy(), or list(filter(predicate, self._errors)).
get_errors_list(M, pred) == NewList(get_errors(M, pred))

\* ErrorRecoveryManager.push_error for the entry object e.
push_error(M, e, t) ==
    LET old_err == get_errors(M, PredUuid(M.entry[e].command_execution_uuid))
        M1 == IF old_err # <<>>
              THEN mark_resolved([M EXCEPT !.errors = ListRemove(M.errors, old_err[1])],
                                 old_err[1], t)
              ELSE M
    IN  IF Raised(M1) THEN M1
        ELSE Return(Notify([M1 EXCEPT !.errors = Append(M1.errors, e)]), EntryRef(e))

\* ErrorRecoveryManager.get_default_timeout, the callback that
\* ErrorRecoveryService.__init__ registers: lambda: self.default_timeout.
get_default_timeout(M) == M.default_timeout

\* ErrorEntry.create, called by the scope of execution x.
NewEntry(x, n, options, default, timeout, t) ==
    [command_execution_uuid |-> x, error_time |-> t, error |-> Fault(n),
     continuation_options |-> options, default_option |-> default,
     automation_selection_timeout |-> timeout, creator_instance |-> ScopeObj(x),
     selected_continuation |-> PyNone, resolution |-> PyNone,
     resolution_available |-> FALSE, is_resolved |-> FALSE]

\* The expression err.__manager stands in the body of class ErrorEntry.
create(M, x, options, default, timeout, t) ==
    IF timeout = PyNone /\ Mangle("ErrorEntry", "__manager") \notin ScopeAttrs
    THEN Raise(M, "AttributeError")
    ELSE LET n == Len(M.entry) + 1
             tm == IF timeout = PyNone THEN get_default_timeout(M) ELSE timeout.val
         IN  Return([M EXCEPT !.entry = Append(M.entry,
                         NewEntry(x, n, options, default, tm, t))], EntryRef(n))

\* ErrorEntry.get_selected_continuation.  "not self.resolution_available" tests
\* the Event object, which is always truthy, so that branch never raises.
get_selected_continuation(M, e) ==
    IF M.entry[e].selected_continuation = PyNone THEN Raise(M, "RuntimeError")
    ELSE IF M.entry[e].resolution = PyNone THEN Raise(M, "RuntimeError")
    ELSE Return(M, M.entry[e].selected_continuation)

\* ErrorEntry.wait_for_continuation from "the resolution is available" on.
\* auto_resolve is the argument (PyNone when left out), scope_ar the
\* creator_instance.auto_resolve property.
resume(M, e, auto_resolve, scope_ar, t) ==
    LET M0 == get_selected_continuation(M, e) IN
    IF Raised(M0) THEN M0
    ELSE LET continuation == M0.ret
             M1 == IF auto_resolve = PyNone
                   THEN (IF scope_ar THEN mark_resolved(M0, e, t) ELSE M0)
                   ELSE (IF auto_resolve.val THEN mark_resolved(M0, e, t) ELSE M0)
         IN  IF Raised(M1) THEN M1
             ELSE IF continuation.cls # "Continuation" THEN Raise(M1, "AttributeError")
             ELSE IF continuation.auto_raise
                  THEN LET M2 == mark_resolved(M1, e, t) IN
                       IF Raised(M2) THEN M2
                       ELSE [M2 EXCEPT !.exc = "Exception", !.ret = M2.entry[e].error]
                  ELSE Return(M1, continuation)

\* ------------------------------------------------ ErrorRecoveryService
\* feature_ul.get_errors
feature_get_errors(M, x) ==
    LET found == get_errors(M, PredUuid(x)) IN
    IF Len(found) = 0 THEN Raise(M, "InvalidCommandExecutionUUID")
    ELSE IF Len(found) > 1 THEN Raise(M, "Exception")
    ELSE Return(M, EntryRef(found[Len(found)]))

\* A faulty get_continuation, which falls back to the first option.
get_continuation_first(M, e, cid) ==
    LET found == SelectSeq(M.entry[e].continuation_options,
                           LAMBDA o : o.identifier = cid) IN
    IF Len(found) = 0 THEN Return(M, M.entry[e].continuation_options[1])
    ELSE IF Len(found) > 1 THEN Raise(M, "Exception")
    ELSE Return(M, found[Len(found)])

\* feature_ul.get_continuation
get_continuation(M, e, cid) ==
    LET found == SelectSeq(M.entry[e].continuation_options,
                           LAMBDA o : o.identifier = cid) IN
    IF Len(found) = 0 THEN Raise(M, "UnknownContinuationOption")
    ELSE IF Len(found) > 1 THEN Raise(M, "Exception")
    ELSE Return(M, found[Len(found)])

\* ErrorRecoveryService.ExecuteContinuationOption: the call passes
\* (continuation, Resolution(InputData)) to post_resolution(resolution, continuation).
ExecuteContinuationOption(M, x, cid, d) ==
    LET M1 == feature_get_errors(M, x) IN
    IF Raised(M1) THEN M1
    ELSE LET my_error == M1.ret.id
             M2 == get_continuation(M1, my_error, cid)
         IN  IF Raised(M2) THEN M2
             ELSE LET M3 == post_resolution(M2, my_error,
                                            <<M2.ret, Resolution(PyStr(d))>>)
                  IN  IF Raised(M3) THEN M3 ELSE Return(M3, PyNone)

\* ErrorRecoveryService.AbortErrorHandling: post_resolution gets one argument.
AbortErrorHandling(M, x) ==
    LET M1 == feature_get_errors(M, x) IN
    IF Raised(M1) THEN M1
    ELSE LET M2 == post_resolution(M1, M1.ret.id, <<CONTINUATION_CANCELLED>>)
         IN  IF Raised(M2) THEN M2 ELSE Return(M2, PyNone)

\* ------------------------------------------------------ ErrorRecovery
\* ErrorRecovery.__init__: the auto_resolve property of the new scope.
ErrorRecoveryInit(auto_resolve) == auto_resolve

\* context_error_recovery(status, auto_resolve=a): builds ErrorRecovery(status).
context_error_recovery(a) == ErrorRecoveryInit(FALSE)

\* A faulty close, whose predicate compares creator_instance with the
\* ErrorRecovery object, so that clear_errors meets the scope's entries.
close_by_object(M, x, t) == clear_errors(M, PredCreator(ScopeObj(x)), t)

\* ErrorRecovery.close: the predicate compares creator_instance (the
\* ErrorRecovery object) with self.id (a str).
close(M, x, t) == clear_errors(M, PredCreator(ScopeIdStr(x)), t)

\* ErrorRecovery.get_error: list.pop() of the registered entries of the
\* scope's execution.
get_error(M, x) ==
    LET found == get_errors(M, PredUuid(x)) IN
    IF found = <<>> THEN Raise(M, "IndexError")
    ELSE Return(M, EntryRef(found[Len(found)]))

\* ErrorRecovery.push_error: create, then the manager's push_error.
scope_push_error(M, x, options, default, timeout, t) ==
    LET M1 == create(M, x, options, default, timeout, t) IN
    IF Raised(M1) THEN M1 ELSE push_error(M1, M1.ret.id, t)

\* ------------------------------------------------------------- state
\* ErrorRecoveryService.__init__: self.default_timeout = 3600
ServiceDefaultTimeout == 3600
NoWaiter == [st |-> "none"]
\* An execution whose handler has not started: closes counts the calls of
\* close() of its invocation, out is what the invocation gave its caller.
NoScope == [st |-> "none", auto_resolve |-> FALSE, closes |-> 0, out |-> "-"]
\* A client that has no RecoverableErrors stream open.
NoStream == [pc |-> "off", snapshot |-> <<>>]
\* last after a step that is no call of the library's interface.
NoCall == [op |-> "-", a |-> PyNone, exc |-> "", ret |-> PyNone]
Ids == 1..Len(entry)
ProgResolutions == {Resolution(PyStr("d1"))}

Init ==
    /\ errors = <<>>
    /\ entry = <<>>
    /\ listeners = {}
    /\ signal = [s \in Subscribers |-> FALSE]
    /\ now = 0
    /\ scope = [x \in Execs |-> NoScope]
    /\ waiter = <<>>
    /\ last = NoCall
    /\ profile \in Profiles
    /\ sub = [s \in Subscribers |-> NoStream]
    /\ default_timeout = ServiceDefaultTimeout
    /\ instance = (IF profile = Starting THEN 0 ELSE 1)
    /\ managers = (IF profile = Starting THEN 0 ELSE 1)
    /\ held = PyNone

\* No call's result is pending: the event loop picks the next step.
Idle == last.op = "-"

\* Writes a heap back.
Store(M) ==
    /\ errors' = M.errors
    /\ entry' = M.entry
    /\ listeners' = M.listeners
    /\ signal' = M.signal

\* The calls whose result the caller looks at.
Observed == {"resume", "timeout", "mark_resolved", "is_resolution_available"}

\* A call that raised is kept in last with its exception, and so is an
\* observed call; another call that returned normally leaves only its effects.
Called(op, a, M) ==
    last' = IF Raised(M) \/ op \in Observed
            THEN [op |-> op, a |-> a, exc |-> M.exc, ret |-> M.ret]
            ELSE NoCall
\* The program works on the global instance, which it has obtained.
Booted == instance # 0 /\ UNCHANGED <<instance, managers>>
Frame == Booted /\ UNCHANGED <<profile, sub, default_timeout, held>>

\* An entry object that no list and no variable refers to is dropped.
DropUnpushed(M, n) ==
    IF Len(M.entry) > n /\ ~InList(M.errors, Len(M.entry))
    THEN [M EXCEPT !.entry = SubSeq(M.entry, 1, n)] ELSE M

Pad(w, n) == w \o [i \in 1..(n - Len(w)) |-> NoWaiter]

Alive(e) == scope[entry[e].command_execution_uuid].st = "open"

\* ErrorRecoveryManager.__init__ for the next object: it raises when the
\* singleton holds an instance, and stores nothing in the singleton.
ManagerInit(M) ==
    IF M.instance # 0 THEN Raise(M, "RuntimeError")
    ELSE Return([M EXCEPT !.managers = @ + 1], [cls |-> "ErrorRecoveryManager",
                                                  id |-> M.managers + 1])

\* ErrorRecoverySingleton._get_instance
get_global_instance(M) ==
    IF M.instance = 0
    THEN LET M1 == ManagerInit(M) IN
         IF Raised(M1) THEN M1 ELSE [M1 EXCEPT !.instance = M1.ret.id]
    ELSE Return(M, [cls |-> "ErrorRecoveryManager", id |-> M.instance])

\* The singleton before a call.
Singleton == [instance |-> instance, managers |-> managers, exc |-> "",
              ret |-> PyNone]

\* The program calls ErrorRecoveryManager().
ManagerNew ==
    /\ Idle
    /\ managers < MaxManagers
    /\ LET M == ManagerInit(Singleton)
       IN  /\ instance' = M.instance
           /\ managers' = M.managers
           /\ Called("ErrorRecoveryManager", [by |-> "constructor"], M)
    /\ UNCHANGED <<errors, entry, listeners, signal, now, scope, waiter, profile,
                   sub, default_timeout, held>>

\* The program calls ErrorRecoveryManager.get_global_instance().
GetGlobalInstance ==
    /\ Idle
    /\ managers < MaxManagers
    /\ LET M == get_global_instance(Singleton)
       IN  /\ instance' = M.instance
           /\ managers' = M.managers
           /\ Called("get_global_instance", [by |-> "get_global_instance"], M)
    /\ UNCHANGED <<errors, entry, listeners, signal, now, scope, waiter, profile,
                   sub, default_timeout, held>>

\* The clock.
Tick ==
    /\ Idle
    /\ Frame
    /\ now < profile.clock
    /\ now' = now + 1
    /\ last' = NoCall
    /\ UNCHANGED <<errors, entry, listeners, signal, scope, waiter>>

\* async with context_error_recovery(status, auto_resolve=a) / ErrorRecovery.wrap(a)
EnterContext(x, a) ==
    /\ Idle
    /\ Frame
    /\ scope[x].st = "none"
    /\ scope' = [scope EXCEPT ![x].st = "open",
                             ![x].auto_resolve = context_error_recovery(a)]
    /\ last' = NoCall
    /\ UNCHANGED <<errors, entry, listeners, signal, now, waiter>>

\* ErrorRecovery(status, auto_resolve=a), built by the handler itself.
Construct(x, a) ==
    /\ Idle
    /\ Frame
    /\ scope[x].st = "none"
    /\ scope' = [scope EXCEPT ![x].st = "open",
                             ![x].auto_resolve = ErrorRecoveryInit(a)]
    /\ last' = NoCall
    /\ UNCHANGED <<errors, entry, listeners, signal, now, waiter>>

\* ErrorRecovery.push_error(ex, Catalog, default, timeout)
ScopePushError(x, default, timeout) ==
    /\ Idle
    /\ Frame
    /\ scope[x].st = "open"
    /\ Len(entry) < profile.entries
    /\ LET M == DropUnpushed(
                    scope_push_error(Heap, x, Catalog, default, timeout, now),
                    Len(entry))
       IN  /\ Store(M)
           /\ waiter' = Pad(waiter, Len(M.entry))
           /\ Called("push_error", [x |-> x, default |-> default, timeout |-> timeout], M)
    /\ UNCHANGED <<now, scope>>

\* The timeout wait_for_continuation works with.
WaitTimeoutOf(M, e, timeout) ==
    IF timeout = PyNone THEN M.entry[e].automation_selection_timeout
    ELSE timeout.val

\* ErrorEntry.wait_for_continuation up to its first suspension: the waiter of
\* entry e after the call (timeout, auto_resolve) made through `by`.  Its
\* deadline is 0 for none and -1 for one that has passed at the call.
Begin(M, e, timeout, auto_resolve, by) ==
    LET tm == WaitTimeoutOf(M, e, timeout)
    IN  [st |-> "waiting",
         deadline |-> IF tm = 0 THEN 0 ELSE IF tm < 0 THEN -1 ELSE now + tm,
         auto_resolve |-> auto_resolve, by |-> by]
\* Event.wait() returns at once when the event is set; wait_for suspends.
Immediate(M, e, w) == w.deadline = 0 /\ M.entry[e].resolution_available

WaitFrom(M, e, timeout, auto_resolve, by, op, a) ==
    LET w == Begin(M, e, timeout, auto_resolve, by)
        sc == scope[M.entry[e].command_execution_uuid].auto_resolve
        M1 == IF Immediate(M, e, w) THEN resume(M, e, auto_resolve, sc, now) ELSE M
    IN  /\ Store(M1)
        /\ waiter' = [Pad(waiter, Len(M1.entry)) EXCEPT
                          ![e] = IF Immediate(M, e, w) THEN NoWaiter ELSE w]
        /\ IF Immediate(M, e, w) THEN Called("resume", [e |-> e, w |-> w], M1)
           ELSE Called(op, a, M1)

\* ErrorEntry.wait_for_continuation(timeout, auto_resolve=...) on entry e.
EntryWait(e, timeout, auto_resolve) ==
    /\ Idle
    /\ Frame
    /\ Alive(e)
    /\ waiter[e].st # "waiting"
    /\ WaitFrom(Heap, e, timeout, auto_resolve, "entry", "wait_for_continuation",
                [e |-> e, timeout |-> timeout, auto_resolve |-> auto_resolve])
    /\ UNCHANGED <<now, scope>>

\* ErrorRecovery.wait_for_continuation(ex, Catalog, default, timeout, auto_resolve)
ScopeWait(x, default, timeout, auto_resolve) ==
    /\ Idle
    /\ Frame
    /\ scope[x].st = "open"
    /\ Len(entry) < profile.entries
    /\ LET M == DropUnpushed(
                    scope_push_error(Heap, x, Catalog, default, timeout, now),
                    Len(entry))
           a == [x |-> x, default |-> default, timeout |-> timeout,
                 auto_resolve |-> auto_resolve]
       IN  IF Raised(M)
           THEN /\ Store(M)
                /\ waiter' = Pad(waiter, Len(M.entry))
                /\ Called("ErrorRecovery.wait_for_continuation", a, M)
           ELSE WaitFrom(M, M.ret.id, PyNone, auto_resolve, "scope",
                         "ErrorRecovery.wait_for_continuation", a)
    /\ UNCHANGED <<now, scope>>

\* The event loop resumes the coroutine suspended on a set event.
WaitResume(e) ==
    /\ Idle
    /\ Frame
    /\ waiter[e].st = "waiting"
    /\ entry[e].resolution_available
    /\ LET M == resume(Heap, e, waiter[e].auto_resolve,
                       scope[entry[e].command_execution_uuid].auto_resolve, now)
       IN  /\ Store(M)
           /\ waiter' = [waiter EXCEPT ![e] = NoWaiter]
           /\ Called("resume", [e |-> e, w |-> waiter[e]], M)
    /\ UNCHANGED <<now, scope>>

\* A faulty deadline, which cancels the entry instead of leaving it alone.
WaitTimeoutCancels(e) ==
    /\ Idle
    /\ Frame
    /\ waiter[e].st = "waiting"
    /\ waiter[e].deadline > 0
    /\ now >= waiter[e].deadline
    /\ ~entry[e].resolution_available
    /\ Store(post_resolution(Heap, e, <<ResolutionEmpty, CONTINUATION_CANCELLED>>))
    /\ waiter' = [waiter EXCEPT ![e] = NoWaiter]
    /\ last' = [op |-> "timeout", a |-> [e |-> e, w |-> waiter[e]], exc |-> "",
                ret |-> CONTINUATION_CANCELLED]
    /\ UNCHANGED <<now, scope>>

\* asyncio.wait_for reaches its deadline: TimeoutError, return None.
WaitTimeout(e) ==
    /\ Idle
    /\ Frame
    /\ waiter[e].st = "waiting"
    /\ waiter[e].deadline > 0
    /\ now >= waiter[e].deadline
    /\ ~entry[e].resolution_available
    /\ waiter' = [waiter EXCEPT ![e] = NoWaiter]
    /\ last' = [op |-> "timeout", a |-> [e |-> e, w |-> waiter[e]], exc |-> "",
                ret |-> PyNone]
    /\ UNCHANGED <<errors, entry, listeners, signal, now, scope>>

\* asyncio.wait_for with a negative timeout: the deadline has passed at the
\* call, the wait is cancelled on the next turn of the event loop and
\* TimeoutError makes the method return None.  With a resolution available
\* the outcome depends on the asyncio version: the Event.wait() task is
\* cancelled before it runs, or it returns before the timeout is delivered
\* (WaitResume).
WaitExpired(e) ==
    /\ Idle
    /\ Frame
    /\ waiter[e].st = "waiting"
    /\ waiter[e].deadline < 0
    /\ waiter' = [waiter EXCEPT ![e] = NoWaiter]
    /\ last' = [op |-> "timeout", a |-> [e |-> e, w |-> waiter[e]], exc |-> "",
                ret |-> PyNone]
    /\ UNCHANGED <<errors, entry, listeners, signal, now, scope>>

\* What leaves the with block whose body ended with `body` ("returned" or
\* the exception it raised): finally runs close(), and an exception of
\* close() replaces the body's outcome.
Exit(x, M, body) ==
    [scope EXCEPT ![x].st = "closed",
                  ![x].closes = @ + 1,
                  ![x].out = IF Raised(M) THEN M.exc ELSE body]

\* ErrorRecovery.close(), at the exit of the scope: the body has returned.
ScopeClose(x) ==
    /\ Idle
    /\ Frame
    /\ scope[x].st = "open"
    /\ LET M == close(Heap, x, now)
       IN  Store(M) /\ Called("close", [x |-> x], M) /\ scope' = Exit(x, M, "returned")
    /\ UNCHANGED <<now, waiter>>

\* The calls whose exception a handler lets through: the waits, from their
\* start ("...wait_for_continuation") and from their resumption ("resume").
HandlerCalls ==
    {"ErrorRecovery.wait_for_continuation", "wait_for_continuation", "resume",
     "raise_error"}
\* The execution whose handler made the call c.
HandlerOf(c) ==
    IF "x" \in DOMAIN c.a THEN c.a.x ELSE entry[c.a.e].command_execution_uuid

\* The exception of the handler's wait is not caught: it leaves the with
\* block of context_error_recovery, whose finally runs close().
ScopeCloseRaising(x) ==
    /\ ~Idle
    /\ Frame
    /\ last.exc # ""
    /\ last.op \in HandlerCalls
    /\ HandlerOf(last) = x
    /\ scope[x].st = "open"
    /\ LET M == close(Heap, x, now)
       IN  Store(M) /\ Called("close", [x |-> x], M) /\ scope' = Exit(x, M, last.exc)
    /\ UNCHANGED <<now, waiter>>

\* Program code calling the entry's methods: the handler of the entry's
\* execution, while it runs.
EntryMarkResolved(e) ==
    /\ Idle
    /\ Frame
    /\ Alive(e)
    /\ LET M == mark_resolved(Heap, e, now)
       IN  Store(M) /\ Called("mark_resolved", [e |-> e, again |-> entry[e].is_resolved], M)
    /\ UNCHANGED <<now, scope, waiter>>

EntryCancel(e) ==
    /\ Idle
    /\ Frame
    /\ Alive(e)
    /\ LET M == cancel(Heap, e, now)
       IN  Store(M) /\ Called("cancel", [e |-> e], M)
    /\ UNCHANGED <<now, scope, waiter>>

\* entry.raise_error(), in a handler that lets the exception out.
EntryRaiseError(e) ==
    /\ Idle
    /\ Frame
    /\ Alive(e)
    /\ entry[e].command_execution_uuid \in profile.uncaught
    /\ LET M == raise_error(Heap, e, now)
       IN  Store(M) /\ Called("raise_error", [e |-> e], M)
    /\ UNCHANGED <<now, scope, waiter>>

EntryClear(e) ==
    /\ Idle
    /\ Frame
    /\ Alive(e)
    /\ LET M == clear(Heap, e, now)
       IN  Store(M) /\ Called("clear", [e |-> e], M)
    /\ UNCHANGED <<now, scope, waiter>>

EntryPostResolution(e, r, c) ==
    /\ Idle
    /\ Frame
    /\ Alive(e)
    /\ LET M == post_resolution(Heap, e, <<r, c>>)
       IN  Store(M) /\ Called("post_resolution", [e |-> e, r |-> r, c |-> c], M)
    /\ UNCHANGED <<now, scope, waiter>>

EntryIsResolutionAvailable(e) ==
    /\ Idle
    /\ Frame
    /\ Alive(e)
    /\ LET M == is_resolution_available(Heap, e, now)
       IN  Store(M) /\ Called("is_resolution_available", [e |-> e], M)
    /\ UNCHANGED <<now, scope, waiter>>

\* ErrorRecoveryManager.clear_errors(predicate)
ManagerClearErrors(pred) ==
    /\ Idle
    /\ Frame
    /\ LET M == clear_errors(Heap, pred, now)
       IN  Store(M) /\ Called("clear_errors", [pred |-> pred], M)
    /\ UNCHANGED <<now, scope, waiter>>

\* The service's commands, called by a client.
CallExecuteContinuationOption(x, cid, d) ==
    /\ Idle
    /\ Frame
    /\ LET M == ExecuteContinuationOption(Heap, x, cid, d)
       IN  Store(M) /\ Called("ExecuteContinuationOption", [x |-> x, cid |-> cid, d |-> d], M)
    /\ UNCHANGED <<now, scope, waiter>>

CallAbortErrorHandling(x) ==
    /\ Idle
    /\ Frame
    /\ LET M == AbortErrorHandling(Heap, x)
       IN  Store(M) /\ Called("AbortErrorHandling", [x |-> x], M)
    /\ UNCHANGED <<now, scope, waiter>>

\* ErrorRecoveryService.SetErrorHandlingTimeout(s)
CallSetErrorHandlingTimeout(s) ==
    /\ Idle
    /\ Booted
    /\ UNCHANGED <<profile, sub, held>>
    /\ default_timeout' = s
    /\ last' = NoCall
    /\ UNCHANGED <<errors, entry, listeners, signal, now, scope, waiter>>

\* Program code keeps the list that get_errors returns.
ProgramGetErrors(pred) ==
    /\ Idle
    /\ Booted
    /\ held' = get_errors_list(Heap, pred)
    /\ last' = NoCall
    /\ UNCHANGED <<errors, entry, listeners, signal, now, scope, waiter, profile,
                   sub, default_timeout>>

\* Program code removes from the list it keeps (pop) or reorders it (reverse).
ProgramChangesList(op) ==
    /\ Idle
    /\ Booted
    /\ held # PyNone
    /\ Len(Items(Heap, held)) > (IF op = "pop" THEN 0 ELSE 1)
    /\ LET M == IF op = "pop" THEN ListPop(Heap, held) ELSE ListReverse(Heap, held)
       IN  Store(M) /\ held' = M.ret
    /\ last' = NoCall
    /\ UNCHANGED <<now, scope, waiter, profile, sub, default_timeout>>

\* RecoverableErrors, a client opens the stream: subscribe_to_changes registers
\* a new Event, the first snapshot is taken and handed to the client (yield).
Subscribe(s) ==
    /\ Idle
    /\ Booted
    /\ UNCHANGED <<profile, default_timeout, held>>
    /\ s \notin listeners
    /\ listeners' = listeners \cup {s}
    /\ signal' = [signal EXCEPT ![s] = FALSE]
    /\ sub' = [sub EXCEPT ![s] = [pc |-> "yield",
                                   snapshot |-> get_errors(Heap, PredNone)]]
    /\ last' = NoCall
    /\ UNCHANGED <<errors, entry, now, scope, waiter>>

\* A faulty exit, which leaves the Event registered when the stream is
\* cancelled while it waits.
UnsubscribeLeaky(s) ==
    /\ Idle
    /\ Booted
    /\ UNCHANGED <<profile, default_timeout, held>>
    /\ s \in listeners
    /\ listeners' = IF sub[s].pc = "wait" THEN listeners ELSE listeners \ {s}
    /\ signal' = [signal EXCEPT ![s] = FALSE]
    /\ sub' = [sub EXCEPT ![s] = NoStream]
    /\ last' = [op |-> "_unregister_listener", a |-> [s |-> s, pc |-> sub[s].pc],
                exc |-> "", ret |-> PyNone]
    /\ UNCHANGED <<errors, entry, now, scope, waiter>>

\* The with block of subscribe_to_changes is left, and its finally
\* unregisters the Event: at the yield when the stream is closed or an
\* exception is thrown into it, at listener.wait() when it is cancelled.
Unsubscribe(s) ==
    /\ Idle
    /\ Booted
    /\ UNCHANGED <<profile, default_timeout, held>>
    /\ s \in listeners
    /\ listeners' = listeners \ {s}
    /\ signal' = [signal EXCEPT ![s] = FALSE]    \* the Event object is dropped
    /\ sub' = [sub EXCEPT ![s] = NoStream]
    /\ last' = [op |-> "_unregister_listener", a |-> [s |-> s, pc |-> sub[s].pc],
                exc |-> "", ret |-> PyNone]
    /\ UNCHANGED <<errors, entry, now, scope, waiter>>

\* RecoverableErrors resumes after its yield and reaches await listener.wait():
\* a set Event does not suspend, the loop clears it and emits the next
\* snapshot; otherwise the generator is parked on the Event.
StreamResume(s) ==
    /\ Idle
    /\ Booted
    /\ UNCHANGED <<profile, default_timeout, held>>
    /\ sub[s].pc = "yield"
    /\ IF signal[s]
       THEN /\ signal' = [signal EXCEPT ![s] = FALSE]
            /\ sub' = [sub EXCEPT ![s].snapshot = get_errors(Heap, PredNone)]
       ELSE /\ sub' = [sub EXCEPT ![s].pc = "wait"]
            /\ UNCHANGED signal
    /\ last' = NoCall
    /\ UNCHANGED <<errors, entry, listeners, now, scope, waiter>>

\* RecoverableErrors, parked, is woken: listener.clear(), then the next
\* get_errors() and yield, with no suspension in between.
ListenerClear(s) ==
    /\ Idle
    /\ Booted
    /\ UNCHANGED <<profile, default_timeout, held>>
    /\ sub[s].pc = "wait"
    /\ signal[s]
    /\ signal' = [signal EXCEPT ![s] = FALSE]
    /\ sub' = [sub EXCEPT ![s] = [pc |-> "yield",
                                   snapshot |-> get_errors(Heap, PredNone)]]
    /\ last' = NoCall
    /\ UNCHANGED <<errors, entry, listeners, now, scope, waiter>>

\* The result of the call that has just ended reaches its caller.
Deliver ==
    /\ ~Idle
    /\ last' = NoCall
    /\ UNCHANGED <<errors, entry, listeners, signal, now, scope, waiter, profile,
                   sub, default_timeout, instance, managers, held>>

Next ==
    \/ Tick
    \/ "constructor" \in profile.boots /\ ManagerNew
    \/ "get_global_instance" \in profile.boots /\ GetGlobalInstance
    \/ Deliver
    \/ \E x \in profile.execs \ profile.builds, a \in BOOLEAN : EnterContext(x, a)
    \/ \E x \in profile.builds, a \in BOOLEAN : Construct(x, a)
    \/ \E x \in profile.execs, d \in profile.defaults, t \in profile.timeouts :
          ScopePushError(x, d, t)
    \/ \E x \in profile.execs, d \in profile.defaults, t \in profile.timeouts,
          ar \in profile.auto_resolves \ {PyNone} : ScopeWait(x, d, t, ar)
    \/ \E e \in Ids, t \in profile.waits, ar \in profile.auto_resolves :
          EntryWait(e, t, ar)
    \/ \E e \in Ids : WaitResume(e)
    \/ \E e \in Ids : WaitTimeout(e)
    \/ \E e \in Ids : WaitExpired(e)
    \/ \E x \in profile.execs : ScopeClose(x)
    \/ \E x \in profile.uncaught : ScopeCloseRaising(x)
    \/ \E e \in Ids : EntryMarkResolved(e)
    \/ \E e \in Ids : EntryCancel(e)
    \/ \E e \in Ids : EntryRaiseError(e)
    \/ \E e \in Ids : EntryClear(e)
    \/ \E e \in Ids, r \in ProgResolutions, c \in profile.posts :
          EntryPostResolution(e, r, c)
    \/ \E e \in Ids : EntryIsResolutionAvailable(e)
    \/ \E p \in {PredNone} \cup {PredUuid(x) : x \in Execs} : ManagerClearErrors(p)
    \/ \E x \in Execs, cid \in profile.cids, d \in InputDatas :
          CallExecuteContinuationOption(x, cid, d)
    \/ \E x \in Execs : CallAbortErrorHandling(x)
    \/ \E s \in profile.limits : CallSetErrorHandlingTimeout(s)
    \/ \E h \in profile.holds :
          ProgramGetErrors(IF h = "all" THEN PredNone ELSE PredUuid(h))
    \/ \E h \in profile.holds, op \in {"pop", "reverse"} : ProgramChangesList(op)
    \/ \E s \in profile.subs : Subscribe(s) \/ Unsubscribe(s)
    \/ \E s \in profile.subs : StreamResume(s) \/ ListenerClear(s)

Spec == Init /\ [][Next]_vars

\* ------------------------------------------------------------ properties
Registered(e) == InList(errors, e)
SameExecution(e, f) ==
    entry[e].command_execution_uuid = entry[f].command_execution_uuid
\* The registered entries of execution x (what feature_ul.get_errors looks at).
EntriesOf(x) == get_errors(Heap, PredUuid(x))
\* The identifiers of the options of entry e.
OptionIds(e) ==
    { entry[e].continuation_options[i].identifier :
          i \in 1..Len(entry[e].continuation_options) }
OptionWithId(e, cid) ==
    CHOOSE c \in { entry[e].continuation_options[i] :
                       i \in 1..Len(entry[e].continuation_options) } :
        c.identifier = cid
\* The state Cleared of an entry: resolved, with a resolution that releases its
\* waiters, and out of the registry.
Cleared(e) ==
    /\ entry[e].is_resolved
    /\ entry[e].resolution_available
    /\ entry[e].selected_continuation # PyNone
    /\ ~Registered(e)

\* C1, first half: the registry never holds two entries of one
\* command_execution_uuid.
OneEntryPerExecution ==
    \A i, j \in 1..Len(errors) : SameExecution(errors[i], errors[j]) => i = j

\* C1: the registry holds at most one entry per command_execution_uuid, and
\* whenever an entry pushed for an execution is visible in the registry, every
\* older entry of that execution is out of the registry and Cleared.
C1_PushReplacesOldEntry ==
    /\ OneEntryPerExecution
    /\ \A e, f \in Ids :
           (e < f /\ SameExecution(e, f) /\ Registered(f)) => Cleared(e)

\* C2: ExecuteContinuationOption(X, C.identifier, data) for a registered entry E
\* of X and an option C of E returns without error, and afterwards E has
\* selected_continuation = C, resolution.input_data = data and its resolution
\* available.
C2_ExecutePostsResolution ==
    [][\A x \in Execs, cid \in {"A", "B", "Z"}, d \in InputDatas :
          ( /\ CallExecuteContinuationOption(x, cid, d)
            /\ EntriesOf(x) # <<>>
            /\ cid \in OptionIds(EntriesOf(x)[1]) )
          => LET e == EntriesOf(x)[1] IN
             /\ last'.exc = ""
             /\ entry'[e].selected_continuation = OptionWithId(e, cid)
             /\ entry'[e].resolution = Resolution(PyStr(d))
             /\ entry'[e].resolution_available]_vars

\* C3: AbortErrorHandling(X) for a registered entry E of X returns without
\* error and afterwards E has the CANCELLED continuation selected and its
\* resolution available (which releases the waiter).
C3_AbortPostsCancelled ==
    [][\A x \in Execs :
          (CallAbortErrorHandling(x) /\ EntriesOf(x) # <<>>)
          => LET e == EntriesOf(x)[1] IN
             /\ last'.exc = ""
             /\ entry'[e].selected_continuation = CONTINUATION_CANCELLED
             /\ entry'[e].resolution_available]_vars

\* The waiter of entry e belongs to a call of ErrorRecovery.wait_for_continuation.
ScopeWaiter(w) == w.st = "waiting" /\ w.by = "scope"

\* C4: a handler inside ErrorRecovery.wait_for_continuation with a timeout
\* T > 0 is never resumed with "no continuation" (None).
C4_ScopeWaitNeverNone ==
    ~( /\ last.op = "timeout"
       /\ ScopeWaiter(last.a.w)
       /\ entry[last.a.e].automation_selection_timeout > 0
       /\ last.ret = PyNone )

\* Nobody has resolved entry e: no resolution posted, not marked resolved.
Unresolved(e) == ~entry[e].resolution_available /\ ~entry[e].is_resolved
\* More than the entry's timeout T > 0 has elapsed since error_time.
Elapsed(e) ==
    /\ entry[e].automation_selection_timeout > 0
    /\ now - entry[e].error_time > entry[e].automation_selection_timeout

\* C5: a wait_for_continuation(timeout=0) on an unresolved entry with T > 0
\* elapsed and default_option A can end: its coroutine is not blocked.
C5_WaitZeroAfterTimeoutEnds ==
    \A e \in Ids :
        ( /\ Idle
          /\ waiter[e].st = "waiting"
          /\ waiter[e].deadline = 0
          /\ Elapsed(e)
          /\ entry[e].default_option = ContA
          /\ Unresolved(e) )
        => ENABLED WaitResume(e)

\* C6: a wait_for_continuation that finds a chosen continuation with auto_raise
\* (CANCELLED included) ends by raising the fault stored in the entry, and the
\* entry is then Cleared and out of the registry, whatever auto_resolve is.
C6_AutoRaiseClearsAndReraises ==
    ( /\ last.op = "resume"
      /\ entry[last.a.e].selected_continuation.cls = "Continuation"
      /\ entry[last.a.e].selected_continuation.auto_raise )
    => /\ last.exc = "Exception"
       /\ last.ret = entry[last.a.e].error
       /\ Cleared(last.a.e)

\* The part of the state a rejected call must leave alone.
registry == <<errors, entry, listeners, signal>>

\* C7: post_resolution with a continuation that is neither an option of the
\* entry nor CANCELLED raises ValueError and changes neither the entry nor the
\* registry.
C7_UnknownContinuationRejected ==
    [][\A e \in Ids, r \in ProgResolutions,
          c \in {ContA, ContB, ContZ, CONTINUATION_CANCELLED} :
          ( /\ EntryPostResolution(e, r, c)
            /\ ~InList(entry[e].continuation_options, c)
            /\ c # CONTINUATION_CANCELLED )
          => /\ last'.op = "post_resolution"
             /\ last'.exc = "ValueError"
             /\ UNCHANGED registry]_vars

\* post_resolution(r, Z) was called on an entry whose options are A and B.
C7_Witness ==
    /\ last.op = "post_resolution"
    /\ last.a.c = ContZ
    /\ ~InList(entry[last.a.e].continuation_options, ContZ)
    /\ last.exc = "ValueError"

\* C8: ExecuteContinuationOption and AbortErrorHandling for an execution
\* without a registered entry raise InvalidCommandExecutionUUID,
\* ExecuteContinuationOption with a continuation id that is no option of the
\* entry raises UnknownContinuationOption, and a rejected call changes nothing.
C8_UnknownIdsRejected ==
    [][ /\ \A x \in Execs, cid \in {"A", "B", "Z"}, d \in InputDatas :
            CallExecuteContinuationOption(x, cid, d) =>
               /\ EntriesOf(x) = <<>> =>
                      /\ last'.exc = "InvalidCommandExecutionUUID"
                      /\ UNCHANGED registry
               /\ (EntriesOf(x) # <<>> /\ cid \notin OptionIds(EntriesOf(x)[1])) =>
                      /\ last'.exc = "UnknownContinuationOption"
                      /\ UNCHANGED registry
        /\ \A x \in Execs :
            (CallAbortErrorHandling(x) /\ EntriesOf(x) = <<>>) =>
               /\ last'.exc = "InvalidCommandExecutionUUID"
               /\ UNCHANGED registry ]_vars

\* ExecuteContinuationOption(x, "Z", d) was rejected for a registered entry of x
\* while another execution has no entry.
C8_Witness ==
    /\ last.op = "ExecuteContinuationOption"
    /\ last.a.cid = "Z"
    /\ EntriesOf(last.a.x) # <<>>
    /\ last.exc = "UnknownContinuationOption"
    /\ \E x \in Execs : EntriesOf(x) = <<>>

\* C9: once the scope of an execution is closed, no entry it created is in the
\* registry.
C9_CloseRemovesScopeEntries ==
    \A x \in Execs :
        scope[x].st = "closed" =>
            \A e \in Ids : entry[e].creator_instance = ScopeObj(x) => ~Registered(e)

\* C10: clear_errors(predicate) returns without raising; every entry that
\* matched is then Cleared and every registered entry that did not match is
\* still registered.
C10_ClearErrorsClearsMatching ==
    [][\A p \in {PredNone} \cup {PredUuid(x) : x \in Execs} :
          ManagerClearErrors(p) =>
             /\ last'.exc = ""
             /\ \A e \in Ids :
                    Registered(e) =>
                        IF Matches(p, entry[e]) THEN Cleared(e)' ELSE Registered(e)']_vars

\* C11: a mark_resolved() on an entry that was marked resolved before raises
\* nothing and changes neither the entry (selected_continuation, resolution,
\* resolution_available), the registry, the listeners' signals nor the waiters.
C11_MarkResolvedTwice ==
    [][\A e \in Ids :
          (EntryMarkResolved(e) /\ entry[e].is_resolved)
          => /\ last'.op = "mark_resolved"
             /\ last'.exc = ""
             /\ UNCHANGED <<registry, waiter>>]_vars

\* A second mark_resolved() has returned on an entry that holds a resolution
\* other than the forced cancellation.
C11_Witness ==
    /\ last.op = "mark_resolved"
    /\ last.a.again
    /\ last.exc = ""
    /\ entry[last.a.e].selected_continuation = ContA

\* The time since error_time of entry e.
ElapsedTime(e) == now - entry[e].error_time

\* C12: for an entry with timeout T > 0 and no resolution, an availability
\* check made before T has elapsed reports "not available" and changes
\* nothing, and a check made when T or more has elapsed returns "available"
\* with selected_continuation = default_option and an empty resolution.
C12_TimeoutSelectsDefault ==
    [][\A e \in Ids :
          ( /\ EntryIsResolutionAvailable(e)
            /\ entry[e].automation_selection_timeout > 0
            /\ ~entry[e].resolution_available )
          => IF ElapsedTime(e) < entry[e].automation_selection_timeout
             THEN /\ last'.exc = ""
                  /\ last'.ret = PyBool(FALSE)
                  /\ UNCHANGED registry
             ELSE /\ last'.exc = ""
                  /\ last'.ret = PyBool(TRUE)
                  /\ entry'[e].resolution_available
                  /\ entry'[e].selected_continuation = entry[e].default_option
                  /\ entry'[e].resolution = ResolutionEmpty]_vars

\* C13: an entry with timeout 0 gets a resolution only from a post_resolution
\* call of program code or as the forced cancellation; an availability check
\* of it changes nothing and reports "not available" whatever time has
\* elapsed, and a wait without deadline on it ends only with a resolution.
C13_ZeroTimeoutNeverSelects ==
    [][\A e \in Ids :
          (e <= Len(entry') /\ entry[e].automation_selection_timeout = 0)
          => /\ (~entry[e].resolution_available /\ entry'[e].resolution_available)
                => \/ \E r \in ProgResolutions,
                         c \in {ContA, ContB, ContZ, CONTINUATION_CANCELLED} :
                         EntryPostResolution(e, r, c)
                   \/ entry'[e].selected_continuation = CONTINUATION_CANCELLED
             /\ (EntryIsResolutionAvailable(e) /\ ~entry[e].resolution_available)
                => /\ last'.ret = PyBool(FALSE)
                   /\ UNCHANGED registry
             /\ ( /\ waiter[e].st = "waiting"
                  /\ waiter[e].deadline = 0
                  /\ waiter'[e].st # "waiting" )
                => entry[e].resolution_available]_vars

\* An availability check of an unresolved entry with timeout 0 has returned
\* False after time has elapsed.
C13_Witness ==
    /\ last.op = "is_resolution_available"
    /\ last.ret = PyBool(FALSE)
    /\ entry[last.a.e].automation_selection_timeout = 0
    /\ ElapsedTime(last.a.e) > 0

\* The step registers a new entry for execution x.
Pushes(x) ==
    /\ Len(entry') > Len(entry)
    /\ entry'[Len(entry')].command_execution_uuid = x
    /\ InList(errors', Len(entry'))

\* C14: when push_error supersedes an entry of the same execution on which
\* no resolution had been posted, the superseded entry is out of the
\* registry and ends selected with CONTINUATION_CANCELLED (the continuation
\* on which its waiter re-raises the fault), also when its timeout > 0 had
\* already elapsed.
C14_SupersededEndsCancelled ==
    [][\A x \in Execs :
          (EntriesOf(x) # <<>> /\ Pushes(x))
          => LET old == EntriesOf(x)[1] IN
             ~entry[old].resolution_available
             => /\ ~InList(errors', old)
                /\ entry'[old].resolution_available
                /\ entry'[old].selected_continuation = CONTINUATION_CANCELLED]_vars

\* C15: each call of clear_errors (made directly or through ErrorEntry.clear)
\* sets the Event of every registered subscriber exactly once, however many
\* entries it clears.
C15_ClearErrorsSetsOnce ==
    [][/\ \A p \in {PredNone} \cup {PredUuid(x) : x \in Execs} :
             ManagerClearErrors(p)
             => \A s \in listeners : clear_errors(Heap, p, now).sets[s] = 1
       /\ \A e \in Ids :
             EntryClear(e)
             => \A s \in listeners : clear(Heap, e, now).sets[s] = 1]_vars

\* C16: every handler invocation wrapped by context_error_recovery (or
\* ErrorRecovery.wrap) runs close() exactly once, when its body returns and
\* when its body raises (the fault re-raised by wait_for_continuation
\* included), and the body's result or exception still reaches the caller.
C16_CloseOncePerInvocation ==
    [][\A x \in Execs :
          /\ (ScopeClose(x) /\ x \notin profile.builds)
             => scope'[x].closes = 1 /\ scope'[x].out = "returned"
          /\ ScopeCloseRaising(x)
             => scope'[x].closes = 1 /\ scope'[x].out = last.exc
          /\ scope[x].st = "closed" => scope'[x] = scope[x]
          /\ scope[x].st # "closed" => scope[x].closes = 0]_vars
\* A wrapped handler has ended with the fault that its wait re-raised, while
\* an entry of its scope was registered.
C16_Witness ==
    \E x \in Execs \ profile.builds :
        /\ scope[x].st = "closed" /\ scope[x].closes = 1
        /\ scope[x].out = "Exception"
        /\ \E e \in Ids : entry[e].command_execution_uuid = x /\ Registered(e)

\* C17: an entry created with timeout None is created, with the value the
\* get-timeout callback returns as its automation_selection_timeout: the
\* service's default_timeout, which is the s of the last
\* SetErrorHandlingTimeout(s).
C17_NoneTimeoutUsesCallback ==
    [][\A x \in Execs, d \in profile.defaults :
          ScopePushError(x, d, PyNone)
          => /\ last'.exc = ""
             /\ Len(entry') = Len(entry) + 1
             /\ InList(errors', Len(entry'))
             /\ entry'[Len(entry')].automation_selection_timeout = default_timeout]_vars

\* C18: when the server receives a continuation option of the entry of
\* execution x through ExecuteContinuationOption, the error item of x is
\* removed from the Recoverable Errors list: the snapshot RecoverableErrors
\* takes next (get_errors of the registry after the call) has no item of x.
C18_ExecuteRemovesErrorItem ==
    [][\A x \in Execs, cid \in profile.cids, d \in InputDatas :
          (/\ CallExecuteContinuationOption(x, cid, d)
           /\ Len(EntriesOf(x)) = 1
           /\ cid \in OptionIds(EntriesOf(x)[1]))
          => \A i \in 1..Len(errors') :
                 entry'[errors'[i]].command_execution_uuid # x]_vars

\* C19: the RecoverableErrors subscription loses no update.  Wherever the
\* subscriber's loop stands, its last snapshot equals the registry or its
\* Event is set, so that the loop's next steps emit the registry as it is
\* after the change.
C19_NoLostUpdate ==
    \A s \in Subscribers :
        sub[s].pc # "off" => (signal[s] \/ sub[s].snapshot = errors)

\* C20: however a push_error that supersedes the entry of execution x
\* interleaves with ExecuteContinuationOption / AbortErrorHandling for x, a
\* resolver changes only an entry that is registered when it posts, and the
\* waiter of the superseded entry is released exactly once: the supersede
\* sets the entry's Event, which is never cleared again, and the waiter
\* leaves its wait in one resumption.
C20_SupersedeRaceSafe ==
    [][/\ \A x \in Execs :
             (\/ CallAbortErrorHandling(x)
              \/ \E cid \in profile.cids, d \in InputDatas :
                     CallExecuteContinuationOption(x, cid, d))
             => \A e \in Ids : entry'[e] # entry[e] => Registered(e)
       /\ \A x \in Execs, d \in profile.defaults, t \in profile.timeouts :
             (ScopePushError(x, d, t) /\ EntriesOf(x) # <<>>)
             => LET old == EntriesOf(x)[1] IN
                (/\ ~InList(errors', old)
                 /\ waiter[old].st = "waiting"
                 /\ ~entry[old].resolution_available)
                => /\ entry'[old].resolution_available
                   /\ waiter'[old].st = "waiting"
       /\ \A e \in Ids :
             /\ entry[e].resolution_available => entry'[e].resolution_available
             /\ WaitResume(e) => waiter'[e] = NoWaiter]_vars

\* C21: when wait_for_continuation reaches its positive deadline with no
\* resolution posted it returns None, selects no continuation (CANCELLED
\* neither), and leaves the entry as it was: Open, and in the registry if it
\* was there.
C21_DeadlineReturnsNone ==
    [][\A e \in Ids :
          WaitTimeout(e)
          => /\ last'.op = "timeout" /\ last'.exc = "" /\ last'.ret = PyNone
             /\ entry'[e] = entry[e]
             /\ entry'[e].selected_continuation = PyNone
             /\ ~entry'[e].resolution_available
             /\ UNCHANGED registry]_vars
C21_Witness ==
    /\ last.op = "timeout" /\ last.ret = PyNone
    /\ Registered(last.a.e)
    /\ Unresolved(last.a.e)
    /\ now >= last.a.w.deadline /\ last.a.w.deadline > 0

\* The auto_resolve in force for the wait w of entry e: the argument, or the
\* owning scope's property when the argument is None.
AutoResolveOf(e, w) ==
    IF w.auto_resolve = PyNone
    THEN scope[entry[e].command_execution_uuid].auto_resolve
    ELSE w.auto_resolve.val

\* C22: a wait_for_continuation that returns a chosen continuation (one
\* without auto_raise) leaves the entry Cleared and out of the registry when
\* auto_resolve is in force; otherwise the entry keeps the chosen
\* continuation in ResolutionAvailable and stays in the registry, not
\* resolved by the call.
C22_AutoResolveClearsOnReturn ==
    [][\A e \in Ids :
          (/\ last'.op = "resume" /\ last'.exc = ""
           /\ last'.a.e = e)
          => IF AutoResolveOf(e, last'.a.w)
             THEN Cleared(e)'
             ELSE /\ entry'[e] = entry[e]
                  /\ entry'[e].resolution_available
                  /\ entry'[e].selected_continuation = last'.ret
                  /\ errors' = errors]_vars

\* C23: a scope obtained through context_error_recovery(status,
\* auto_resolve=True) (or ErrorRecovery.wrap(auto_resolve=True)) has
\* auto_resolve = true, the property that a wait_for_continuation without an
\* explicit auto_resolve argument inherits.
C23_ContextKeepsAutoResolve ==
    [][\A x \in Execs :
          EnterContext(x, TRUE)
          => /\ scope'[x].auto_resolve
             /\ \A e \in Ids :
                   entry[e].command_execution_uuid = x
                   => AutoResolveOf(e, [auto_resolve |-> PyNone])']_vars

\* C24: after ErrorRecovery.wait_for_continuation, called with its default
\* arguments (auto_resolve left at True), has returned a continuation,
\* ErrorRecovery.get_error() returns the entry of that wait.
C24_GetErrorAfterScopeWait ==
    [][\A e \in Ids :
          (/\ last'.op = "resume" /\ last'.exc = ""
           /\ last'.a.e = e
           /\ last'.a.w.by = "scope"
           /\ last'.a.w.auto_resolve = PyBool(TRUE))
          => LET M == get_error(Heap, entry[e].command_execution_uuid)'
             IN  M.exc = "" /\ M.ret = EntryRef(e)]_vars

\* C25: at most one ErrorRecoveryManager is ever constructed in a process,
\* whether the first was obtained by the constructor or through
\* get_global_instance(): every later construction attempt fails.
C25_AtMostOneManager == managers <= 1

\* C26: every call of the manager's push_error (reached once the entry
\* object is created) returns the entry it stored, which get_errors() then
\* shows, and sets the Event of every subscriber registered at that time.
C26_PushStoresAndWakes ==
    [][\A x \in Execs, d \in profile.defaults, t \in profile.timeouts :
          (ScopePushError(x, d, t) /\ ~Raised(create(Heap, x, Catalog, d, t, now)))
          => LET new == Len(entry) + 1
                 M == scope_push_error(Heap, x, Catalog, d, t, now)
             IN  /\ M.exc = "" /\ M.ret = EntryRef(new)
                 /\ Len(entry') = new
                 /\ InList(get_errors(Heap, PredNone)', new)
                 /\ \A s \in listeners : signal'[s]]_vars

C28_ListenerWhileSubscribed ==
    /\ \A s \in Subscribers : (s \in listeners) <=> (sub[s].pc # "off")
    /\ (\A s \in Subscribers : sub[s].pc = "off") => listeners = {}
\* A subscription has been cancelled while waiting, and its Event is gone.
C28_Witness ==
    /\ last.op = "_unregister_listener"
    /\ last.a.pc = "wait"
    /\ last.a.s \notin listeners
    /\ errors # <<>>

\* C29: a negative timeout is rejected at once with an error, as the
\* argument of wait_for_continuation (the wait then changes nothing and never
\* ends as an expired deadline) and as automation_selection_timeout at the
\* creation of an entry (no entry is then created).
C29_NegativeTimeoutRejected ==
    [][/\ \A e \in Ids, t \in profile.waits \ {PyNone},
             ar \in profile.auto_resolves :
             (EntryWait(e, t, ar) /\ t.val < 0)
             => last'.exc # "" /\ UNCHANGED registry
       /\ \A e \in Ids : ~WaitExpired(e)
       /\ \A x \in Execs, d \in profile.defaults,
             t \in profile.timeouts \ {PyNone} :
             (ScopePushError(x, d, t) /\ t.val < 0)
             => last'.exc # "" /\ UNCHANGED registry]_vars

\* C30: mark_resolved(), cancel() and clear_errors, applied to an entry with
\* no resolution posted (and no timeout elapsed), leave it with the empty
\* resolution and CANCELLED, with its resolution-available signal set, and
\* out of the registry; applied to an entry with a resolution they keep its
\* chosen continuation and its resolution.
C30_ResolvingForcesCancelled ==
    [][\A e \in Ids :
          ( \/ EntryMarkResolved(e)
            \/ EntryCancel(e)
            \/ /\ Registered(e)
               /\ \E p \in {PredNone} \cup {PredUuid(x) : x \in Execs} :
                      Matches(p, entry[e]) /\ ManagerClearErrors(p) )
          => /\ (~entry[e].resolution_available /\ ~Elapsed(e))
                => /\ entry'[e].resolution = ResolutionEmpty
                   /\ entry'[e].selected_continuation = CONTINUATION_CANCELLED
                   /\ entry'[e].resolution_available
                   /\ ~Registered(e)'
             /\ entry[e].resolution_available
                => /\ entry'[e].selected_continuation
                          = entry[e].selected_continuation
                   /\ entry'[e].resolution = entry[e].resolution]_vars

\* C31: every entry in the registry has its default_option among its
\* continuation_options, and neither is_resolution_available nor
\* mark_resolved ever fails with the ValueError of an unknown continuation.
C31_DefaultAmongOptions ==
    /\ \A e \in Ids :
          Registered(e)
          => InList(entry[e].continuation_options, entry[e].default_option)
    /\ ~( /\ last.op \in {"is_resolution_available", "mark_resolved", "cancel"}
          /\ last.exc = "ValueError" )

\* C32: mark_resolved() returns from every entry state without raising (the
\* chain mark_resolved -> clear -> clear_errors -> mark_resolved ends at the
\* resolved flag).
C32_MarkResolvedReturns ==
    last.op = "mark_resolved" => last.exc = ""

\* C33: once an entry has a selected continuation, no step changes its
\* selected_continuation or its resolution.
C33_SelectionIsFinal ==
    [][\A e \in Ids :
          (entry[e].selected_continuation # PyNone /\ e <= Len(entry'))
          => /\ entry'[e].selected_continuation = entry[e].selected_continuation
             /\ entry'[e].resolution = entry[e].resolution]_vars

\* C34: an operation on a superseded entry o (clear, cancel, mark_resolved,
\* raise_error, or its waiter ending its wait) leaves the newer entry n of
\* the same execution as it was: same fields, same place in the registry,
\* same waiter.
C34_SupersededLeavesNewer ==
    [][\A o \in Ids, n \in Ids :
          ( /\ o < n
            /\ SameExecution(o, n)
            /\ ~Registered(o)
            /\ entry[o].selected_continuation = CONTINUATION_CANCELLED
            /\ \/ EntryClear(o)
               \/ EntryCancel(o)
               \/ EntryMarkResolved(o)
               \/ EntryRaiseError(o)
               \/ WaitResume(o)
               \/ WaitTimeout(o)
               \/ WaitExpired(o) )
          => /\ entry'[n] = entry[n]
             /\ Registered(n)' = Registered(n)
             /\ waiter'[n] = waiter[n]]_vars

C36_SignalMeansSelection ==
    /\ \A e \in Ids :
          entry[e].resolution_available
          => /\ entry[e].selected_continuation # PyNone
             /\ \/ InList(entry[e].continuation_options,
                           entry[e].selected_continuation)
                \/ entry[e].selected_continuation = CONTINUATION_CANCELLED
             /\ entry[e].resolution # PyNone
    /\ last.op = "resume" => last.exc # "RuntimeError"
C36_Witness ==
    /\ last.op = "resume" /\ last.exc = ""
    /\ entry[last.a.e].resolution_available
    /\ last.ret = entry[last.a.e].selected_continuation
    /\ \E f \in Ids :
          /\ entry[f].resolution_available
          /\ entry[f].selected_continuation = CONTINUATION_CANCELLED
====
